---- MODULE Spec2Model ----
(***************************************************************************)
(* PollingSerialPort: the poll-based read/write transport of               *)
(* custom_components/foxess_modbus/client/protocol_pollserial.py.          *)
(*                                                                         *)
(* One caller thread runs read(size) or write(data) step by step (pc);     *)
(* other threads raise abort signals on the two abort pipes, the device    *)
(* delivers bytes and the clock ticks between any two steps.               *)
(* Time is counted in ticks since the entry of the call in flight;         *)
(* TicksPerMs ticks make one millisecond, the unit of poll's budget.       *)
(***************************************************************************)
EXTENDS Integers, Sequences, FiniteSets, TLC

\* ---------------------------------------------------------------- bounds
MaxSize == 2
MaxData == 2
MaxStream == 2
MaxPending == 2
MaxTimeout == 2
TicksPerMs == 2
MaxCount == 2
MaxParts == 3
MaxAddresses == 3

\* ------------------------------------------------------- program constants
\* Python's None for a timeout setting: Timeout.is_infinite
None == -1
\* os.read(self.pipe_abort_read_r, 1000) / os.read(self.pipe_abort_write_r, 1000)
AbortReadSize == 1000
\* 16 * i and 0xFFFF in modbus_number.py
WordBits == 16
WordMask == 65535

MaxTime == MaxTimeout + 1
Timeouts == {None, 0, MaxTimeout}
InterByteTimeouts == {None, 0, 1}
ErrBits == {"POLLERR", "POLLHUP", "POLLNVAL"}
Transient == {"EAGAIN", "EALREADY", "EWOULDBLOCK", "EINPROGRESS", "EINTR"}
\* errno values os.write is made to fail with: two transient ones, one that is not
WriteErrnos == {"EAGAIN", "EINTR", "EIO"}
\* errno values os.read is made to fail with
ReadErrnos == {"EAGAIN", "EIO"}

\* Strings are sequences of characters. Python's None where a string is expected:
NoneStr == <<"None">>
\* "pollserial://"
Prefix == <<"p", "o", "l", "l", "s", "e", "r", "i", "a", "l", ":", "/", "/">>
\* what the paths handed to the port setter are made of: the prefix, the prefix
\* short of its last character, and single characters of a device path
PathParts == {Prefix, SubSeq(Prefix, 1, Len(Prefix) - 1), <<"/">>, <<"d">>}
RECURSIVE Join(_, _)
Join(f, k) == IF k = 0 THEN <<>> ELSE Join(f, k - 1) \o f[k]
Paths == UNION {{Join(f, k) : f \in [1..k -> PathParts]} : k \in 0..MaxParts}

\* A Python int, as large as it likes: its two's complement bits, the low bit
\* first, continued for ever by the bit sign
PyInt(sign, bits) == [sign |-> sign, bits |-> bits]
\* the bits are kept without a top run of sign bits
RECURSIVE Norm(_)
Norm(x) ==
    IF x.bits # <<>> /\ x.bits[Len(x.bits)] = x.sign
    THEN Norm(PyInt(x.sign, SubSeq(x.bits, 1, Len(x.bits) - 1)))
    ELSE x
RECURSIVE IntBits(_)
IntBits(m) == IF m = 0 \/ m = -1 THEN <<>> ELSE <<m % 2>> \o IntBits(m \div 2)
\* the Python int of a small integer
int(m) == PyInt(IF m < 0 THEN 1 ELSE 0, IntBits(m))
\* bit i of x, the low bit being bit 1
Bit(x, i) == IF i <= Len(x.bits) THEN x.bits[i] ELSE x.sign
\* Python's None where an int is expected
NoInt == PyInt(None, <<>>)
\* 2^k and 2^k - 1
Pow2(k) == PyInt(0, [i \in 1..(k + 1) |-> IF i = k + 1 THEN 1 ELSE 0])
Ones(k) == PyInt(0, [i \in 1..k |-> 1])

\* A Python float that is a whole number w (h = 0) or w and a half (h = 1)
Float(w, h) == [w |-> w, h |-> h]
\* Python's None where a float is expected
NoFloat == Float(int(0), None)
Min(a, b) == IF a < b THEN a ELSE b
Max(a, b) == IF a > b THEN a ELSE b
Bump(c) == Min(c + 1, MaxCount)
Bytes(k) == [i \in 1..k |-> i]

VARIABLES
    is_open,            \* self.is_open
    pipe_abort_read,    \* bytes pending in the read-abort pipe
    pipe_abort_write,   \* bytes pending in the write-abort pipe
    rx,                 \* bytes the device holds ready for os.read(self.fd, ...)
    delivered,          \* bytes the device has delivered so far
    now,                \* ticks since the entry of the call in flight
    pc,                 \* position of the caller thread
    timeout,            \* Timeout(...).duration of the call in flight
    inter_byte_timeout, \* self._inter_byte_timeout
    size,               \* read: size
    read,               \* read: the bytearray read
    d,                  \* write: d, the unsent data
    total_len,          \* write: total_len
    tx_remaining,       \* write: tx_remaining
    n,                  \* write: n of the last os.write, None before the first
    e,                  \* write: errno of the last os.write that failed, "" if none
    poll_timeout,       \* budget handed to poll.poll, in ms, None for no bound
    poll_start,         \* tick at which poll.poll was entered
    events,             \* what the last poll.poll of this call returned
    outcome,            \* how the last call ended
    polls,              \* poll.poll calls of this call (counted up to MaxCount)
    dev_ios,            \* os.read / os.write calls on self.fd of this call
    pipe_reads,         \* os.read calls on an abort pipe of this call
    accepted,           \* bytes the device accepted over this call's os.write calls
    signalled,          \* an abort signal was raised on this call's channel since its entry
    stale,              \* this call began with a signal pending that was raised during
                        \* an earlier call on the same channel
    late,               \* first byte delivered to a wait entered after the deadline, 0 if none
    clean,              \* no read has raised since the port was opened
    stream,             \* while clean: the bytes the device has delivered since then
    returned,           \* while clean: the bytes the reads since then have returned
    tx,                 \* write: the bytes the device has accepted from this call
    addresses,          \* ModbusNumber: len(self._addresses), None before it is made
    native_min_value,   \* ModbusNumber: desc.native_min_value
    native_max_value,   \* ModbusNumber: desc.native_max_value
    requested,          \* async_set_native_value: the value it was last called with
    int_value,          \* async_set_native_value: int_value
    registers,          \* the words the controller was last given to write
    native_value,       \* what native_value last gave, None before it is read
    value,              \* port setter: the value it was last called with
    port                \* self._port, the path the device is opened by

vars == <<is_open, pipe_abort_read, pipe_abort_write, rx, delivered, now, pc, timeout,
          inter_byte_timeout, size, read, d, total_len, tx_remaining, n, e,
          poll_timeout, poll_start, events, outcome, polls, dev_ios, pipe_reads,
          accepted, signalled, stale, late, stream, returned, clean, tx, value, port,
          addresses, native_min_value, native_max_value, requested, int_value,
          registers, native_value>>

env == <<is_open, pipe_abort_read, pipe_abort_write, rx, delivered>>
locals == <<timeout, inter_byte_timeout, size, read, d, total_len, tx_remaining, n, e,
            poll_timeout, poll_start, events>>
counts == <<polls, dev_ios, pipe_reads, accepted>>
ghosts == <<signalled, stale, late>>
setting == <<value, port>>
history == <<stream, returned, clean, tx>>
number == <<addresses, native_min_value, native_max_value, requested, int_value,
            registers, native_value>>

\* How a call ended: what it returned or raised, and the branch that ended its loop
NoOutcome == [op |-> "none", kind |-> "none", bytes |-> <<>>, count |-> 0,
              exc |-> "", msg |-> "", cause |-> "", by |-> ""]
Returned(o, b, c, why) == [op |-> o, kind |-> "return", bytes |-> b, count |-> c,
                           exc |-> "", msg |-> "", cause |-> "", by |-> why]
Raised(o, cls, m, c, why) == [op |-> o, kind |-> "raise", bytes |-> <<>>, count |-> 0,
                              exc |-> cls, msg |-> m, cause |-> c, by |-> why]

InRead == pc \in {"r_poll", "r_read"}
InWrite == pc \in {"w_write", "w_poll"}

\* ---------------------------------------------------------------- Timeout
\* serial.serialutil.Timeout, as read() and write() use it
is_infinite(t) == t = None
is_non_blocking(t) == t = 0
time_left(t, clock) == IF is_non_blocking(t) THEN 0 ELSE Max(0, t - clock)
\* Mutant of expired: the deadline never counts as passed
expiredNever(t, clock) == FALSE

\* Timeout.expired
expired(t, clock) == ~is_infinite(t) /\ time_left(t, clock) <= 0
\* Mutant of PollTimeout: every wait is given the whole duration
PollTimeoutRestarts(t, clock) == IF is_infinite(t) THEN None ELSE t \div TicksPerMs

\* None if timeout.is_infinite else int(timeout.time_left() * 1000)
PollTimeout(t, clock) == IF is_infinite(t) THEN None ELSE time_left(t, clock) \div TicksPerMs

\* poll.poll(poll_timeout) may come back with nothing to report
PollTimedOut == poll_timeout # None /\ now - poll_start >= poll_timeout * TicksPerMs

Init ==
    /\ is_open = FALSE
    /\ pipe_abort_read = 0
    /\ pipe_abort_write = 0
    /\ rx = <<>>
    /\ delivered = 0
    /\ now = 0
    /\ pc = "idle"
    /\ timeout = None
    /\ inter_byte_timeout = None
    /\ size = 0
    /\ read = <<>>
    /\ d = <<>>
    /\ total_len = 0
    /\ tx_remaining = 0
    /\ n = None
    /\ e = ""
    /\ poll_timeout = None
    /\ poll_start = 0
    /\ events = <<>>
    /\ outcome = NoOutcome
    /\ polls = 0
    /\ dev_ios = 0
    /\ pipe_reads = 0
    /\ accepted = 0
    /\ signalled = FALSE
    /\ stale = FALSE
    /\ late = 0
    /\ stream = <<>>
    /\ returned = <<>>
    /\ clean = TRUE
    /\ tx = <<>>
    /\ value = NoneStr
    /\ port = NoneStr
    /\ addresses = None
    /\ native_min_value = NoFloat
    /\ native_max_value = NoFloat
    /\ requested = Float(int(0), 0)
    /\ int_value = int(0)
    /\ registers = <<>>
    /\ native_value = NoInt

\* The call is over: what it returned or raised stays until the next call
Finish(o) ==
    /\ pc' = "idle"
    /\ outcome' = o
    /\ now' = 0
    /\ poll_timeout' = None
    /\ poll_start' = 0

\* What a step of read adds to the record of the reads since the port was opened
\* (the record is kept for as long as no read has raised)
ReadLog ==
    /\ clean' = (clean /\ ~(pc' = "idle" /\ outcome'.kind = "raise" /\ is_open))
    /\ returned' = (IF ~clean' THEN <<>>
                    ELSE IF pc' = "idle" /\ outcome'.kind = "return"
                    THEN returned \o outcome'.bytes ELSE returned)
    /\ stream' = (IF clean' THEN stream ELSE <<>>)

\* ------------------------------------------------------------------- poll
\* The (fd, event) pairs of one poll.poll: the descriptors are reported in the
\* order they were registered in, self.fd before the abort pipe.
PollEvents(mask, pending) ==
    (IF mask = {} THEN <<>> ELSE <<[fd |-> "fd", event |-> mask]>>)
    \o (IF pending > 0 THEN <<[fd |-> "abort", event |-> {"POLLIN"}]>> ELSE <<>>)

\* What the device descriptor can report: the readiness bit, any one error bit
DeviceMasks(ready, bit) ==
    {(IF r THEN {bit} ELSE {}) \cup err : r \in ready, err \in {{}} \cup {{b} : b \in ErrBits}}

\* Mutant of Scan: the descriptor test comes before the test of the error bits
RECURSIVE ScanReadyFirst(_, _, _)
ScanReadyFirst(ev, i, result) ==
    IF i > Len(ev) THEN result
    ELSE IF ev[i].fd = "abort" THEN "ABORT"
    ELSE IF ev[i].fd = "fd" THEN ScanReadyFirst(ev, i + 1, "READY")
    ELSE IF ev[i].event \cap ErrBits # {} THEN "RAISE"
    ELSE ScanReadyFirst(ev, i + 1, result)

\* Mutant of Scan: the abort pipe's event does not end the scan (the break is missing)
RECURSIVE ScanNoBreak(_, _, _)
ScanNoBreak(ev, i, result) ==
    IF i > Len(ev) THEN result
    ELSE IF ev[i].fd = "abort" THEN ScanNoBreak(ev, i + 1, "ABORT")
    ELSE IF ev[i].event \cap ErrBits # {} THEN "RAISE"
    ELSE IF ev[i].fd = "fd" THEN ScanNoBreak(ev, i + 1, "READY")
    ELSE ScanNoBreak(ev, i + 1, result)

\* Mutant of Scan: the abort pipe's event does not end the scan, it counts as ready
RECURSIVE ScanAbortIsReady(_, _, _)
ScanAbortIsReady(ev, i, result) ==
    IF i > Len(ev) THEN result
    ELSE IF ev[i].fd = "abort" THEN ScanAbortIsReady(ev, i + 1, "READY")
    ELSE IF ev[i].event \cap ErrBits # {} THEN "RAISE"
    ELSE IF ev[i].fd = "fd" THEN ScanAbortIsReady(ev, i + 1, "READY")
    ELSE ScanAbortIsReady(ev, i + 1, result)

\* for fd, event in events: ... the result the loop leaves, "RAISE" when it raises
RECURSIVE Scan(_, _, _)
Scan(ev, i, result) ==
    IF i > Len(ev) THEN result
    ELSE IF ev[i].fd = "abort" THEN "ABORT"
    ELSE IF ev[i].event \cap ErrBits # {} THEN "RAISE"
    ELSE IF ev[i].fd = "fd" THEN Scan(ev, i + 1, "READY")
    ELSE Scan(ev, i + 1, result)

\* Mutant of PollResult: the abort pipe is not looked at
PollResultIgnoresAbort(ev) ==
    LET result == Scan(ev, 1, "TIMEOUT") IN IF result = "ABORT" THEN "READY" ELSE result

\* result = _PollResult.TIMEOUT, then the for loop over the events
PollResult(ev) == Scan(ev, 1, "TIMEOUT")

\* Mutant of Drain: os.read(pipe, 1) takes one byte
DrainOne(pending) == pending - Min(pending, 1)

\* os.read(pipe, 1000): what is left in a pipe holding `pending` bytes
Drain(pending) == pending - Min(pending, AbortReadSize)

\* Mutant of pipe_abort_read_r: the other direction's pipe
pipe_abort_read_r_swapped == pipe_abort_write

\* poll.register(self.pipe_abort_read_r, ...): what read's poll sees pending
pipe_abort_read_r == pipe_abort_read
\* poll.register(self.pipe_abort_write_r, ...): what write's poll sees pending
pipe_abort_write_r == pipe_abort_write

\* poll.poll is entered with the budget left at `clock`
EnterPoll(where, t, clock, count) ==
    /\ pc' = where
    /\ poll_timeout' = PollTimeout(t, clock)
    /\ poll_start' = clock
    /\ polls' = Bump(count)

\* A signal raised during the last call, which was on the same channel and returned
\* without consuming it, is still in the pipe when the next call begins
LeftFrom(op) ==
    signalled /\ outcome.op = op /\ outcome.kind = "return" /\ outcome.by # "abort"

\* ------------------------------------------------------------------- port
\* str.startswith
startswith(s, p) == Len(s) >= Len(p) /\ SubSeq(s, 1, Len(p)) = p

\* Mutant of removeprefix: str.lstrip, which drops every leading character that
\* occurs in p
RECURSIVE lstrip(_, _)
lstrip(s, p) ==
    IF s # <<>> /\ (\E i \in 1..Len(p) : p[i] = s[1]) THEN lstrip(Tail(s), p) ELSE s

\* str.removeprefix
removeprefix(s, p) == IF startswith(s, p) THEN SubSeq(s, Len(p) + 1, Len(s)) ELSE s

\* the port setter, called before the port is opened:
\* if value is not None: serial.Serial.port.__set__(self, value.removeprefix(...))
SetPort(v) ==
    /\ pc = "idle" /\ ~is_open
    /\ value' = v
    /\ port' = (IF v # NoneStr THEN removeprefix(v, Prefix) ELSE port)
    /\ UNCHANGED <<env, now, pc, locals, outcome, counts, ghosts, history>>
    /\ UNCHANGED number

\* ------------------------------------------------------------------- read
\* Mutant of OsRead: os.read takes the bytes that arrived last
OsReadLast(q, k) == SubSeq(q, Len(q) - Min(k, Len(q)) + 1, Len(q))

\* Mutant of OsRead: os.read takes all the device holds
OsReadAll(q, k) == q

\* os.read(self.fd, k): the bytes taken from the device
OsRead(q, k) == SubSeq(q, 1, Min(k, Len(q)))

\* Mutant of NotOpen: the check is missing
NotOpenNever == FALSE

\* if not self.is_open: raise PortNotOpenError()
NotOpen == ~is_open

\* Mutant of ReadLoop: the loop test comes after the body (the wait is made first)
ReadLoopWaitsFirst(sz, buf, t, clock, count) ==
    /\ EnterPoll("r_poll", t, clock, count)
    /\ now' = clock
    /\ outcome' = NoOutcome

\* while len(read) < size: wait in poll.poll, else return bytes(read)
ReadLoop(sz, buf, t, clock, count) ==
    IF Len(buf) < sz
    THEN /\ EnterPoll("r_poll", t, clock, count)
         /\ now' = clock
         /\ outcome' = NoOutcome
    ELSE /\ Finish(Returned("read", buf, Len(buf), "full"))
         /\ polls' = count

\* read(size) is called: the port's settings at that time are t and ibt
ReadCall(sz, t, ibt) ==
    /\ pc = "idle"
    /\ dev_ios' = 0 /\ pipe_reads' = 0 /\ accepted' = 0
    /\ signalled' = FALSE /\ late' = 0
    /\ stale' = LeftFrom("read")
    /\ events' = <<>>
    /\ n' = None /\ e' = ""
    /\ d' = <<>> /\ total_len' = 0 /\ tx_remaining' = 0
    /\ size' = sz
    /\ read' = <<>>
    /\ timeout' = t
    /\ inter_byte_timeout' = ibt
    /\ IF NotOpen
       THEN /\ Finish(Raised("read", "PortNotOpenError", "", "", "not_open"))
            /\ polls' = 0
       ELSE ReadLoop(sz, <<>>, t, 0, 0)
    /\ UNCHANGED env
    /\ UNCHANGED setting
    /\ ReadLog
    /\ tx' = <<>>
    /\ UNCHANGED number

\* poll.poll returns, the events are scanned and the result is acted on
ReadPoll ==
    /\ pc = "r_poll"
    /\ \E mask \in DeviceMasks(IF rx # <<>> THEN {TRUE} ELSE BOOLEAN, "POLLIN") :
          LET ev == PollEvents(mask, pipe_abort_read_r)
              result == PollResult(ev)
          IN
          /\ ev = <<>> => PollTimedOut
          /\ events' = ev
          /\ IF result = "ABORT"
             THEN /\ pipe_abort_read' = Drain(pipe_abort_read)
                  /\ pipe_reads' = Bump(pipe_reads)
             ELSE UNCHANGED <<pipe_abort_read, pipe_reads>>
          /\ IF result = "RAISE"
             THEN /\ Finish(Raised("read", "SerialException",
                                   "device reports error (poll)", "", "device_error"))
                  /\ UNCHANGED polls
             ELSE IF result = "READY"
             THEN /\ pc' = "r_read"
                  /\ UNCHANGED <<now, poll_timeout, poll_start, outcome, polls>>
             ELSE IF result \in {"TIMEOUT", "ABORT"} \/ expired(timeout, now)
             THEN /\ Finish(Returned("read", read, Len(read),
                                     IF result = "ABORT" THEN "abort" ELSE "timeout"))
                  /\ UNCHANGED polls
             ELSE ReadLoop(size, read, timeout, now, polls)
    /\ UNCHANGED <<is_open, pipe_abort_write, rx, delivered, timeout, inter_byte_timeout,
                   size, read, d, total_len, tx_remaining, n, e, dev_ios, accepted,
                   ghosts>>
    /\ UNCHANGED setting
    /\ ReadLog
    /\ UNCHANGED tx
    /\ UNCHANGED number

\* Mutant of truthy: nothing counts as configured
truthyNever(x) == FALSE

\* if self._inter_byte_timeout: Python's truth value of None or a number
truthy(x) == x # None /\ x # 0

\* os.read(self.fd, size - len(read)), the inter-byte break and the loop test
ReadDevice ==
    /\ pc = "r_read"
    /\ LET buf == OsRead(rx, size - Len(read)) IN
       /\ rx' = SubSeq(rx, Len(buf) + 1, Len(rx))
       /\ read' = read \o buf
       /\ dev_ios' = Bump(dev_ios)
       /\ IF truthy(inter_byte_timeout) /\ buf = <<>>
          THEN /\ Finish(Returned("read", read \o buf, Len(read \o buf), "inter_byte"))
               /\ UNCHANGED polls
          ELSE ReadLoop(size, read \o buf, timeout, now, polls)
    /\ UNCHANGED <<is_open, pipe_abort_read, pipe_abort_write, delivered, timeout,
                   inter_byte_timeout, size, d, total_len, tx_remaining, n, e, events,
                   pipe_reads, accepted, ghosts>>
    /\ UNCHANGED setting
    /\ ReadLog
    /\ UNCHANGED tx
    /\ UNCHANGED number

\* os.read(self.fd, ...) raises OSError(errno): read has no try statement around
\* it, the exception leaves the call as it is
ReadFail(errno) ==
    /\ pc = "r_read"
    /\ dev_ios' = Bump(dev_ios)
    /\ Finish(Raised("read", "OSError", errno, "", "os_error"))
    /\ UNCHANGED <<env, timeout, inter_byte_timeout, size, read, d, total_len,
                   tx_remaining, n, e, events, polls, pipe_reads, accepted, ghosts>>
    /\ UNCHANGED setting
    /\ ReadLog
    /\ UNCHANGED tx
    /\ UNCHANGED number

\* ------------------------------------------------------------------ write
\* Exceptions that `except OSError` catches: SerialException derives from OSError
IsOSError(cls) == cls \in {"OSError", "SerialException", "SerialTimeoutException",
                           "PortNotOpenError"}

\* Mutant of Except: every OSError is swallowed
ExceptSwallowsAll(cls, errno, msg) == [NoOutcome EXCEPT !.kind = "pass"]

\* except OSError as e: what leaves the try statement for an exception raised in it
\* (errno "None" for one built from a message alone); kind "pass" when it is swallowed
Except(cls, errno, msg) ==
    IF IsOSError(cls)
    THEN IF errno \notin Transient
         THEN Raised("write", "SerialException", "write failed", msg, "write_failed")
         ELSE [NoOutcome EXCEPT !.kind = "pass"]
    ELSE Raised("write", cls, msg, "", "error")

\* Mutant of WriteLoop: an expired deadline ends the call with the count so far
WriteLoopReturns(rem, data, t, clock) ==
    IF ~is_non_blocking(t) /\ expired(t, clock)
    THEN Finish(Returned("write", <<>>, total_len - Len(data), "timeout"))
    ELSE IF rem > 0
    THEN /\ pc' = "w_write"
         /\ UNCHANGED <<now, poll_timeout, poll_start, outcome>>
    ELSE Finish(Returned("write", <<>>, total_len - Len(data), "full"))

\* Mutant of WriteLoop: the deadline check is missing
WriteLoopNoDeadline(rem, data, t, clock) ==
    IF rem > 0
    THEN /\ pc' = "w_write"
         /\ UNCHANGED <<now, poll_timeout, poll_start, outcome>>
    ELSE Finish(Returned("write", <<>>, total_len - Len(data), "full"))

\* the end of one iteration: the deadline check of line 127, then the loop test
WriteLoop(rem, data, t, clock) ==
    IF ~is_non_blocking(t) /\ expired(t, clock)
    THEN Finish(Raised("write", "SerialTimeoutException", "Write timeout", "", "timeout"))
    ELSE IF rem > 0
    THEN /\ pc' = "w_write"
         /\ UNCHANGED <<now, poll_timeout, poll_start, outcome>>
    ELSE Finish(Returned("write", <<>>, total_len - Len(data), "full"))

\* an exception raised inside the try statement
WriteRaise(cls, errno, msg) ==
    LET x == Except(cls, errno, msg) IN
    IF x.kind = "pass" THEN WriteLoop(tx_remaining, d, timeout, now) ELSE Finish(x)

\* write(data) is called: the port's write timeout at that time is t
WriteCall(data, t) ==
    /\ pc = "idle"
    /\ polls' = 0 /\ dev_ios' = 0 /\ pipe_reads' = 0 /\ accepted' = 0
    /\ signalled' = FALSE /\ late' = 0
    /\ stale' = LeftFrom("write")
    /\ events' = <<>>
    /\ n' = None /\ e' = ""
    /\ size' = 0 /\ read' = <<>>
    /\ inter_byte_timeout' = None
    /\ d' = data
    /\ total_len' = Len(data)
    /\ tx_remaining' = Len(data)
    /\ timeout' = t
    /\ IF NotOpen
       THEN Finish(Raised("write", "PortNotOpenError", "", "", "not_open"))
       ELSE IF Len(data) > 0
       THEN /\ pc' = "w_write"
            /\ now' = 0
            /\ outcome' = NoOutcome
            /\ UNCHANGED <<poll_timeout, poll_start>>
       ELSE Finish(Returned("write", <<>>, 0, "full"))
    /\ UNCHANGED env
    /\ UNCHANGED setting
    /\ tx' = <<>>
    /\ UNCHANGED <<stream, returned, clean>>
    /\ UNCHANGED number

\* Mutant of AfterWrite: the non-blocking return is missing
AfterWriteNoReturn(k) ==
    IF tx_remaining - k = 0
    THEN /\ Finish(Returned("write", <<>>, total_len - (Len(d) - k), "full"))
         /\ UNCHANGED polls
    ELSE /\ EnterPoll("w_poll", timeout, now, polls)
         /\ UNCHANGED <<now, outcome>>

\* Mutant of AfterWrite: the break on tx_remaining == 0 is missing
AfterWriteNoBreak(k) ==
    IF is_non_blocking(timeout)
    THEN /\ Finish(Returned("write", <<>>, k, "non_blocking"))
         /\ UNCHANGED polls
    ELSE /\ EnterPoll("w_poll", timeout, now, polls)
         /\ UNCHANGED <<now, outcome>>

\* after n = os.write(...) took k bytes: the non-blocking return, the break on
\* tx_remaining == 0, else the wait: lines 96-105
AfterWrite(k) ==
    IF is_non_blocking(timeout)
    THEN /\ Finish(Returned("write", <<>>, k, "non_blocking"))
         /\ UNCHANGED polls
    ELSE IF tx_remaining - k = 0
    THEN /\ Finish(Returned("write", <<>>, total_len - (Len(d) - k), "full"))
         /\ UNCHANGED polls
    ELSE /\ EnterPoll("w_poll", timeout, now, polls)
         /\ UNCHANGED <<now, outcome>>

\* Mutant of WriteAccept: d = d[n + 1:]
WriteAcceptSkips(k) ==
    /\ pc = "w_write"
    /\ n' = k
    /\ e' = ""
    /\ tx_remaining' = tx_remaining - k
    /\ d' = SubSeq(d, k + 2, Len(d))
    /\ accepted' = accepted + k
    /\ dev_ios' = Bump(dev_ios)
    /\ AfterWrite(k)
    /\ UNCHANGED <<env, timeout, inter_byte_timeout, size, read, total_len, events,
                   pipe_reads, ghosts>>
    /\ UNCHANGED setting
    /\ tx' = tx \o SubSeq(d, 1, k)
    /\ UNCHANGED <<stream, returned, clean>>
    /\ UNCHANGED number

\* Mutant of WriteAccept: d = d[n:] is missing
WriteAcceptKeepsData(k) ==
    /\ pc = "w_write"
    /\ n' = k
    /\ e' = ""
    /\ tx_remaining' = tx_remaining - k
    /\ accepted' = accepted + k
    /\ dev_ios' = Bump(dev_ios)
    /\ AfterWrite(k)
    /\ UNCHANGED <<env, timeout, inter_byte_timeout, size, read, d, total_len, events,
                   pipe_reads, ghosts>>
    /\ UNCHANGED setting
    /\ tx' = tx \o SubSeq(d, 1, k)
    /\ UNCHANGED <<stream, returned, clean>>
    /\ UNCHANGED number

\* n = os.write(self.fd, d) accepts k bytes: lines 92-104
WriteAccept(k) ==
    /\ pc = "w_write"
    /\ n' = k
    /\ e' = ""
    /\ tx_remaining' = tx_remaining - k
    /\ d' = SubSeq(d, k + 1, Len(d))
    /\ accepted' = accepted + k
    /\ dev_ios' = Bump(dev_ios)
    /\ AfterWrite(k)
    /\ UNCHANGED <<env, timeout, inter_byte_timeout, size, read, total_len, events,
                   pipe_reads, ghosts>>
    /\ UNCHANGED setting
    /\ tx' = tx \o SubSeq(d, 1, k)
    /\ UNCHANGED <<stream, returned, clean>>
    /\ UNCHANGED number

\* os.write(self.fd, d) raises OSError(errno): lines 123-128
WriteFail(errno) ==
    /\ pc = "w_write"
    /\ e' = errno
    /\ dev_ios' = Bump(dev_ios)
    /\ WriteRaise("OSError", errno, errno)
    /\ UNCHANGED <<env, timeout, inter_byte_timeout, size, read, d, total_len,
                   tx_remaining, n, events, polls, pipe_reads, accepted, ghosts>>
    /\ UNCHANGED setting
    /\ UNCHANGED history
    /\ UNCHANGED number

\* poll.poll returns, the events are scanned and the result is acted on: lines 105-128
WritePoll ==
    /\ pc = "w_poll"
    /\ \E mask \in DeviceMasks(BOOLEAN, "POLLOUT") :
          LET ev == PollEvents(mask, pipe_abort_write_r)
              result == PollResult(ev)
          IN
          /\ ev = <<>> => PollTimedOut
          /\ events' = ev
          /\ IF result = "ABORT"
             THEN /\ pipe_abort_write' = Drain(pipe_abort_write)
                  /\ pipe_reads' = Bump(pipe_reads)
             ELSE UNCHANGED <<pipe_abort_write, pipe_reads>>
          /\ IF result = "RAISE"
             THEN WriteRaise("SerialException", "None", "device reports error (poll)")
             ELSE IF result = "TIMEOUT"
             THEN WriteRaise("SerialTimeoutException", "None", "Write timeout")
             ELSE IF result = "ABORT"
             THEN Finish(Returned("write", <<>>, total_len - Len(d), "abort"))
             ELSE WriteLoop(tx_remaining, d, timeout, now)
    /\ UNCHANGED <<is_open, pipe_abort_read, rx, delivered, timeout, inter_byte_timeout,
                   size, read, d, total_len, tx_remaining, n, e, polls, dev_ios,
                   accepted, ghosts>>
    /\ UNCHANGED setting
    /\ UNCHANGED history
    /\ UNCHANGED number

\* ----------------------------------------------------------- ModbusNumber
\* a < b for two Python ints
Less(a, b) ==
    IF a.sign # b.sign THEN a.sign = 1
    ELSE \E i \in 1..Max(Len(a.bits), Len(b.bits)) :
            /\ Bit(a, i) < Bit(b, i)
            /\ \A j \in (i + 1)..Max(Len(a.bits), Len(b.bits)) : Bit(a, j) = Bit(b, j)
\* a <= b for two floats
Leq(a, b) == Less(a.w, b.w) \/ (a.w = b.w /\ a.h <= b.h)
\* Python's max(a, b) and min(a, b)
max(a, b) == IF Leq(b, a) THEN a ELSE b
min(a, b) == IF Leq(a, b) THEN a ELSE b

\* the carry into bit i of a + b
RECURSIVE Carry(_, _, _)
Carry(a, b, i) ==
    IF i = 1 THEN 0 ELSE (Bit(a, i - 1) + Bit(b, i - 1) + Carry(a, b, i - 1)) \div 2
\* a + b: two bits more than the longer one hold the sum and its sign
Add(a, b) ==
    LET w == Max(Len(a.bits), Len(b.bits)) + 2
        t == [i \in 1..w |-> (Bit(a, i) + Bit(b, i) + Carry(a, b, i)) % 2]
    IN  Norm(PyInt(t[w], t))

\* Python's round(x): to the nearest whole number, a half to the even one
round(x) == IF x.h = 0 THEN x.w ELSE IF Bit(x.w, 1) = 0 THEN x.w ELSE Add(x.w, int(1))

\* Mutant of Clamp: the value is taken as it is
ClampNothing(v, lo, hi) == v

\* if desc.native_min_value is not None and desc.native_max_value is not None:
\*     value = max(desc.native_min_value, min(desc.native_max_value, value))
Clamp(v, lo, hi) == IF lo # NoFloat /\ hi # NoFloat THEN max(lo, min(hi, v)) ELSE v

\* x >> k and x << k
Shr(x, k) ==
    PyInt(x.sign, IF k >= Len(x.bits) THEN <<>> ELSE SubSeq(x.bits, k + 1, Len(x.bits)))
Shl(x, k) == Norm(PyInt(x.sign, [i \in 1..k |-> 0] \o x.bits))
\* x & y, bit by bit
And(x, y) ==
    Norm(PyInt(x.sign * y.sign,
               [i \in 1..Max(Len(x.bits), Len(y.bits)) |-> Bit(x, i) * Bit(y, i)]))
\* x & 0xFFFF
And16(x) == And(x, int(WordMask))

\* Mutant of words: the high word first
wordsBigEndian(x, k) == [i \in 1..k |-> And16(Shr(x, WordBits * (k - i)))]

\* Mutant of words: the mask is missing
wordsNoMask(x, k) == [i \in 1..k |-> Shr(x, WordBits * (i - 1))]

\* words = [(int_value >> (16 * i)) & 0xFFFF for i in range(len(self._addresses))]
words(x, k) == [i \in 1..k |-> And16(Shr(x, WordBits * (i - 1)))]

\* sum((v & 0xFFFF) << (16 * i) for i, v in enumerate(values)), over the first k
RECURSIVE combine(_, _)
combine(values, k) ==
    IF k = 0 THEN int(0)
    ELSE Add(combine(values, k - 1), Shl(And16(values[k]), WordBits * (k - 1)))

\* the values async_set_native_value is called with: around zero and around the
\* ends of one, two and three words
Wholes ==
    {int(m) : m \in {-2, -1, 0, 1, 2, 3, 65535, 65536, 65537, 305419896}}
    \cup {Ones(2 * WordBits), Pow2(2 * WordBits), Ones(3 * WordBits), Pow2(3 * WordBits)}
Requests == {Float(w, h) : w \in Wholes, h \in {0, 1}}
\* native_min_value and native_max_value: unset, or set with min <= max
BoundValues ==
    {Float(int(0), 0), Float(int(0), 1), Float(int(1), 1), Float(int(2), 0),
     Float(int(65536), 0), Float(Pow2(2 * WordBits), 0)}
Bounds ==
    {<<NoFloat, NoFloat>>, <<Float(int(0), 0), NoFloat>>}
    \cup {b \in BoundValues \X BoundValues : Leq(b[1], b[2])}

\* ModbusNumber(controller, entity_description, addresses): a number of k
\* addresses with no scale, whose description holds the bounds lo and hi
ModbusNumber(k, lo, hi) ==
    /\ addresses = None
    /\ addresses' = k
    /\ native_min_value' = lo
    /\ native_max_value' = hi
    /\ UNCHANGED <<requested, int_value, registers, native_value>>
    /\ UNCHANGED <<env, now, pc, locals, outcome, counts, ghosts, history, setting>>

\* async_set_native_value(value)
async_set_native_value(v) ==
    /\ addresses # None
    /\ requested' = v
    /\ int_value' = round(Clamp(v, native_min_value, native_max_value))
    /\ registers' = (IF addresses = 1 THEN <<int_value'>> ELSE words(int_value', addresses))
    /\ native_value' = NoInt
    /\ UNCHANGED <<addresses, native_min_value, native_max_value>>
    /\ UNCHANGED <<env, now, pc, locals, outcome, counts, ghosts, history, setting>>

\* native_value, no scale, no post_process and nothing to validate: the
\* controller gives back the words it was given
NativeValue ==
    /\ registers # <<>>
    /\ native_value' = combine(registers, Len(registers))
    /\ UNCHANGED <<addresses, native_min_value, native_max_value, requested, int_value,
                   registers>>
    /\ UNCHANGED <<env, now, pc, locals, outcome, counts, ghosts, history, setting>>

\* ------------------------------------------------------------ environment
\* open(): the descriptor and two fresh abort pipes
Open ==
    /\ pc = "idle" /\ ~is_open
    /\ is_open' = TRUE
    /\ pipe_abort_read' = 0 /\ pipe_abort_write' = 0
    /\ UNCHANGED <<rx, delivered, now, pc, locals, outcome, counts, ghosts>>
    /\ UNCHANGED setting
    /\ stream' = <<>> /\ returned' = <<>> /\ clean' = TRUE
    /\ UNCHANGED tx
    /\ UNCHANGED number

\* close(): no call is in flight when the descriptors go
Close ==
    /\ pc = "idle" /\ is_open
    /\ is_open' = FALSE
    /\ pipe_abort_read' = 0 /\ pipe_abort_write' = 0
    /\ rx' = <<>>
    /\ signalled' = FALSE
    /\ UNCHANGED <<delivered, now, pc, locals, outcome, counts, stale, late>>
    /\ UNCHANGED setting
    /\ UNCHANGED history
    /\ UNCHANGED number

\* another thread writes a byte to the read-abort pipe
CancelRead ==
    /\ is_open /\ pipe_abort_read < MaxPending
    /\ pipe_abort_read' = pipe_abort_read + 1
    /\ signalled' = (signalled \/ InRead)
    /\ UNCHANGED <<is_open, pipe_abort_write, rx, delivered, now, pc, locals, outcome,
                   counts, stale, late>>
    /\ UNCHANGED setting
    /\ UNCHANGED history
    /\ UNCHANGED number

\* another thread writes a byte to the write-abort pipe
CancelWrite ==
    /\ is_open /\ pipe_abort_write < MaxPending
    /\ pipe_abort_write' = pipe_abort_write + 1
    /\ signalled' = (signalled \/ InWrite)
    /\ UNCHANGED <<is_open, pipe_abort_read, rx, delivered, now, pc, locals, outcome,
                   counts, stale, late>>
    /\ UNCHANGED setting
    /\ UNCHANGED history
    /\ UNCHANGED number

\* read() sits in a poll.poll that it entered when its finite deadline had passed
WaitsPastDeadline ==
    /\ pc = "r_poll"
    /\ ~is_infinite(timeout) /\ ~is_non_blocking(timeout)
    /\ poll_start >= timeout

\* the device delivers the next byte of its stream
Deliver ==
    /\ is_open /\ delivered < MaxStream
    /\ delivered' = delivered + 1
    /\ rx' = Append(rx, delivered + 1)
    /\ late' = (IF late = 0 /\ WaitsPastDeadline THEN delivered + 1 ELSE late)
    /\ UNCHANGED <<is_open, pipe_abort_read, pipe_abort_write, now, pc, locals, outcome,
                   counts, signalled, stale>>
    /\ UNCHANGED setting
    /\ stream' = (IF clean THEN Append(stream, delivered + 1) ELSE stream)
    /\ UNCHANGED <<returned, clean, tx>>
    /\ UNCHANGED number

\* the clock advances; a call reads it only through a finite deadline
Tick ==
    /\ pc # "idle" /\ ~is_infinite(timeout) /\ ~is_non_blocking(timeout)
    /\ now < MaxTime
    /\ now' = now + 1
    /\ UNCHANGED <<env, pc, locals, outcome, counts, ghosts>>
    /\ UNCHANGED setting
    /\ UNCHANGED history
    /\ UNCHANGED number

\* reads only: the caller thread reads, another thread cancels reads
NextRead ==
    \/ \E sz \in 0..MaxSize, t \in Timeouts, ibt \in InterByteTimeouts : ReadCall(sz, t, ibt)
    \/ ReadPoll
    \/ ReadDevice
    \/ \E errno \in ReadErrnos : ReadFail(errno)
    \/ Open
    \/ Close
    \/ CancelRead
    \/ Deliver
    \/ Tick

\* writes only: the caller thread writes, another thread cancels writes
NextWrite ==
    \/ \E k \in 0..MaxData, t \in Timeouts : WriteCall(Bytes(k), t)
    \/ \E k \in 0..Len(d) : WriteAccept(k)
    \/ \E errno \in WriteErrnos : WriteFail(errno)
    \/ WritePoll
    \/ Open
    \/ Close
    \/ CancelWrite
    \/ Tick

Next ==
    \/ NextRead
    \/ NextWrite

\* the port is configured: the setter is called with a path or with None
NextPort ==
    \E v \in Paths \cup {NoneStr} : SetPort(v)

\* a number is set and read back
NextNumber ==
    \/ \E k \in 1..MaxAddresses, b \in Bounds : ModbusNumber(k, b[1], b[2])
    \/ \E v \in Requests : async_set_native_value(v)
    \/ NativeValue

Spec == Init /\ [][Next]_vars
SpecNumber == Init /\ [][NextNumber]_vars
SpecPort == Init /\ [][NextPort]_vars
SpecRead == Init /\ [][NextRead]_vars
SpecWrite == Init /\ [][NextWrite]_vars

\* os.read comes back, one way or the other
OsReadReturns ==
    \/ ReadDevice
    \/ \E errno \in ReadErrnos : ReadFail(errno)

\* The caller thread is scheduled: a system call it is in comes back (poll.poll at
\* the latest when its budget is over or a descriptor is ready), and time passes.
SpecReadFair ==
    /\ SpecRead
    /\ WF_vars(OsReadReturns)
    /\ WF_vars(ReadPoll)
    /\ WF_vars(Tick)

\* os.write comes back, one way or the other
OsWriteReturns ==
    \/ \E k \in 0..Len(d) : WriteAccept(k)
    \/ \E errno \in WriteErrnos : WriteFail(errno)

\* The caller thread is scheduled: a system call it is in comes back (poll.poll at
\* the latest when its budget is over or a descriptor is ready), and time passes.
SpecWriteFair ==
    /\ SpecWrite
    /\ WF_vars(OsWriteReturns)
    /\ WF_vars(WritePoll)
    /\ WF_vars(Tick)

\* ----------------------------------------------------------------- claims
\* The error kinds a caller tells apart: the exception class, and for the two
\* plain SerialExceptions the message.
ErrorKind(o) ==
    IF o.kind # "raise" THEN "none"
    ELSE IF o.exc = "PortNotOpenError" THEN "Port-not-open"
    ELSE IF o.exc = "SerialTimeoutException" THEN "Write-timeout"
    ELSE IF o.exc = "SerialException" /\ o.msg = "write failed" THEN "Write-failed"
    ELSE IF o.exc = "SerialException" /\ o.msg = "device reports error (poll)"
    THEN "Device-error"
    ELSE "other"

AbortReported(ev) == \E i \in 1..Len(ev) : ev[i].fd = "abort"
ErrReported(ev) == \E i \in 1..Len(ev) : ev[i].fd = "fd" /\ ev[i].event \cap ErrBits # {}
\* the step in which the poll.poll of read (write) returns
ReadPollReturns == pc = "r_poll" /\ pc' # "r_poll"
WritePollReturns == pc = "w_poll" /\ pc' # "w_poll"

\* C1: a signal raised during a call that has returned never ends a later call: a
\* read (write) that began with such a signal pending is ended by abort only if
\* another signal was raised on its channel after it started.
C1_AbortOnlyByFreshSignal ==
    (pc = "idle" /\ outcome.by = "abort" /\ stale) => signalled

\* C2 as stated: whenever the wait of read reports the abort channel, read returns
\* exactly the bytes accumulated so far as a normal result, reads nothing more from
\* the device, and the signal is consumed so that it cannot abort the next read.
C2_AbortReturnsBytes ==
    [][(ReadPollReturns /\ AbortReported(events'))
         => /\ pc' = "idle"
            /\ outcome' = Returned("read", read, Len(read), "abort")
            /\ pipe_abort_read' = 0
            /\ rx' = rx /\ dev_ios' = dev_ios]_vars

\* C2 amended: the same, for a wait that reports the abort channel and no error
\* condition of the device.
C2_AbortAloneReturnsBytes ==
    [][(ReadPollReturns /\ AbortReported(events') /\ ~ErrReported(events'))
         => /\ pc' = "idle"
            /\ outcome' = Returned("read", read, Len(read), "abort")
            /\ pipe_abort_read' = 0
            /\ rx' = rx /\ dev_ios' = dev_ios]_vars

\* a read aborted with some but not all bytes accumulated, its signal consumed
C2_Witness ==
    /\ pc = "idle" /\ outcome.op = "read" /\ outcome.by = "abort"
    /\ AbortReported(events) /\ ~ErrReported(events)
    /\ Len(outcome.bytes) > 0 /\ Len(outcome.bytes) < size
    /\ pipe_abort_read = 0

\* C3: when the wait of a blocking write elapses with no channel ready, the error
\* that reaches the caller is of the Write-timeout kind.
C3_WaitTimeoutIsWriteTimeout ==
    [][(WritePollReturns /\ events' = <<>>)
         => /\ pc' = "idle"
            /\ ErrorKind(outcome') = "Write-timeout"]_vars

\* C4: when the wait of write reports an error condition of the device, the error
\* that reaches the caller is of the Device-error kind, and the call is over.
C4_WriteDeviceErrorKind ==
    [][(WritePollReturns /\ ErrReported(events'))
         => /\ pc' = "idle"
            /\ ErrorKind(outcome') = "Device-error"]_vars

\* C5: once a wait of read has reported an error condition of the device, the call
\* is over with Device-error: no device read, no further wait, no bytes returned.
C5_ReadDeviceErrorRaises ==
    (outcome.op # "write" /\ ErrReported(events))
        => /\ pc = "idle"
           /\ ErrorKind(outcome) = "Device-error"
           /\ outcome.bytes = <<>>

\* a read that had accumulated a byte and raised Device-error
C5_Witness ==
    /\ pc = "idle" /\ outcome.op = "read" /\ ErrReported(events)
    /\ ErrorKind(outcome) = "Device-error"
    /\ read # <<>>

\* C6: with a non-blocking write timeout, write makes at most one os.write attempt
\* and is over right after it, whatever the attempt's outcome.
C6_NonBlockingOneAttempt ==
    (InWrite /\ timeout = 0) => dev_ios = 0

\* C7: with a non-blocking write timeout, once os.write has accepted n < len(data)
\* bytes the call is over and has returned n, with no wait and no Write-timeout.
C7_NonBlockingPartial ==
    ((InWrite \/ outcome.op = "write") /\ timeout = 0 /\ n # None /\ n < total_len)
        => /\ pc = "idle"
           /\ outcome.kind = "return"
           /\ outcome.count = n /\ n = accepted
           /\ polls = 0

\* a non-blocking write of two bytes that returned 1
C7_Witness ==
    /\ pc = "idle" /\ outcome.op = "write" /\ timeout = 0
    /\ total_len = 2 /\ n = 1 /\ outcome.count = 1

\* C8: a read or write called on a port that is not open raises Port-not-open and
\* does nothing else: no wait, no device I/O, nothing taken from an abort pipe.
C8_NotOpenRaises ==
    [][(pc = "idle" /\ ~is_open /\ ~is_open')
         => /\ pc' = "idle"
            /\ ErrorKind(outcome') = "Port-not-open"
            /\ polls' = 0 /\ dev_ios' = 0 /\ pipe_reads' = 0
            /\ UNCHANGED <<pipe_abort_read, pipe_abort_write, rx>>]_vars

\* a write of two bytes on a closed port that raised Port-not-open
C8_Witness ==
    /\ ~is_open /\ outcome.op = "write" /\ total_len = 2
    /\ ErrorKind(outcome) = "Port-not-open"

\* C9: the read buffer never holds more than size bytes, nor does the result.
C9_ReadWithinSize ==
    /\ Len(read) <= size
    /\ (outcome.op = "read" => Len(outcome.bytes) <= size)

\* a read of one byte that returned one byte and left one in the device
C9_Witness ==
    /\ pc = "idle" /\ outcome.op = "read" /\ outcome.kind = "return"
    /\ size = 1 /\ Len(outcome.bytes) = 1 /\ rx # <<>>

\* C10: the bytes read returns all arrived before its deadline: none of them became
\* available only after the deadline had passed.
C10_NoLateBytes ==
    (outcome.op = "read" /\ outcome.kind = "return" /\ late # 0)
        => \A i \in 1..Len(outcome.bytes) : outcome.bytes[i] < late

\* C11: read raises no timeout error and no error other than Port-not-open and
\* Device-error; when its wait elapses with nothing to report it returns the bytes
\* accumulated so far as a normal result.
C11_ReadErrorsAndStall ==
    [][/\ (outcome'.op = "read" /\ outcome'.kind = "raise")
            => ErrorKind(outcome') \in {"Port-not-open", "Device-error"}
       /\ (ReadPollReturns /\ events' = <<>>)
            => /\ pc' = "idle"
               /\ outcome' = Returned("read", read, Len(read), "timeout")]_vars

\* the part of C11 about a stalled device alone
C11_StallReturnsPartial ==
    [][(ReadPollReturns /\ events' = <<>>)
         => /\ pc' = "idle"
            /\ outcome' = Returned("read", read, Len(read), "timeout")]_vars

\* a read of two bytes that got one, then waited its budget out and returned it
C11_StallWitness ==
    /\ pc = "idle" /\ outcome.op = "read" /\ outcome.by = "timeout"
    /\ size = 2 /\ Len(outcome.bytes) = 1 /\ events = <<>>

\* C12: a write that returned a count smaller than len(data) either had the abort
\* channel reported by its wait or ran with a non-blocking timeout; any other call
\* that ended with bytes remaining ended with an error.
C12_PartialOnlyAbortOrNonBlocking ==
    (pc = "idle" /\ outcome.op = "write" /\ ~AbortReported(events) /\ timeout # 0)
        => /\ (outcome.kind = "return" => outcome.count = total_len)
           /\ (Len(d) > 0 => outcome.kind = "raise")

\* a blocking write of two bytes that returned 0 because its wait reported the abort
C12_Witness ==
    /\ pc = "idle" /\ outcome.op = "write" /\ outcome.kind = "return"
    /\ timeout = None /\ total_len = 2 /\ outcome.count = 0
    /\ AbortReported(events)

\* the step in which an iteration of the write loop reaches its end-of-iteration
\* check: the wait reported the device writable, or os.write failed transiently
WriteIterationEnds ==
    \/ /\ pc = "w_poll" /\ pc' # "w_poll"
       /\ PollResult(events') = "READY"
    \/ /\ pc = "w_write" /\ e' \in Transient
       /\ pipe_abort_write' = pipe_abort_write
       /\ (now' = now \/ pc' = "idle")

\* C13: with a finite blocking write timeout, an iteration that reaches its end with
\* bytes remaining after the deadline raises Write-timeout and no os.write follows.
C13_DeadlineRaisesWriteTimeout ==
    [][(/\ WriteIterationEnds
        /\ ~is_infinite(timeout) /\ ~is_non_blocking(timeout)
        /\ expired(timeout, now) /\ tx_remaining > 0)
         => /\ pc' = "idle"
            /\ ErrorKind(outcome') = "Write-timeout"
            /\ (pc = "w_poll" => dev_ios' = dev_ios)]_vars

\* a write to a device that stayed writable and accepted nothing in two attempts
C13_Witness ==
    /\ pc = "idle" /\ outcome.op = "write" /\ ErrorKind(outcome) = "Write-timeout"
    /\ PollResult(events) = "READY"
    /\ accepted = 0 /\ n = 0 /\ dev_ios = 2

\* C14 as stated: whenever the wait of write reports the abort channel, write
\* returns the count accepted so far as a normal result and attempts no os.write.
C14_AbortReturnsCount ==
    [][(WritePollReturns /\ AbortReported(events'))
         => /\ pc' = "idle"
            /\ outcome' = Returned("write", <<>>, accepted, "abort")
            /\ accepted < total_len
            /\ dev_ios' = dev_ios]_vars

\* C14 amended: the same, for a wait that reports the abort channel and no error
\* condition of the device.
C14_AbortAloneReturnsCount ==
    [][(WritePollReturns /\ AbortReported(events') /\ ~ErrReported(events'))
         => /\ pc' = "idle"
            /\ outcome' = Returned("write", <<>>, accepted, "abort")
            /\ accepted < total_len
            /\ dev_ios' = dev_ios]_vars

\* a write of two bytes aborted after one byte was accepted: it returned 1
C14_Witness ==
    /\ pc = "idle" /\ outcome.op = "write" /\ outcome.by = "abort"
    /\ AbortReported(events) /\ ~ErrReported(events)
    /\ total_len = 2 /\ outcome.count = 1 /\ dev_ios = 1

\* C15: when an os.write brings the remaining count to zero, write returns
\* len(data) with no wait after it and no Write-timeout, whatever the clock says;
\* when that is the first attempt, no wait was made at all.
C15_FullReturnsWithoutWait ==
    [][(pc = "w_write" /\ tx_remaining > 0 /\ tx_remaining' = 0)
         => /\ pc' = "idle"
            /\ outcome'.kind = "return"
            /\ outcome'.count = total_len
            /\ polls' = polls
            /\ (dev_ios = 0 => polls' = 0)]_vars

\* a write with a finite timeout whose second attempt took the last byte
C15_Witness ==
    /\ pc = "idle" /\ outcome.op = "write" /\ outcome.kind = "return"
    /\ timeout = MaxTimeout /\ total_len = 2 /\ outcome.count = 2
    /\ n = 1 /\ polls = 1 /\ tx_remaining = 0

\* C16: once os.write has failed with an errno that is not transient, the call is
\* over with Write-failed wrapping that failure: no attempt, no wait, no count.
C16_FatalWriteFailure ==
    (e # "" /\ e \notin Transient)
        => /\ pc = "idle"
           /\ ErrorKind(outcome) = "Write-failed"
           /\ outcome.cause = e
           /\ outcome.count = 0

\* a write that had one byte accepted and then failed with EIO
C16_Witness ==
    /\ pc = "idle" /\ e = "EIO" /\ accepted = 1 /\ dev_ios = 2
    /\ ErrorKind(outcome) = "Write-failed"

\* C17: what write returns is the number of bytes the device accepted over all the
\* os.write attempts of the call.
C17_ReturnIsAccepted ==
    (outcome.op = "write" /\ outcome.kind = "return") => outcome.count = accepted

\* a write that had one byte accepted, then none, and was aborted: it returned 1
C17_Witness ==
    /\ pc = "idle" /\ outcome.op = "write" /\ outcome.kind = "return"
    /\ total_len = 2 /\ accepted = 1 /\ n = 0 /\ dev_ios = 2
    /\ outcome.count = 1

\* the value starts with "pollserial://"
HasScheme(v) == Len(v) >= Len(Prefix) /\ \A i \in 1..Len(Prefix) : v[i] = Prefix[i]

\* C18: after the port was set to pollserial://<path>, the stored port is <path>,
\* whatever <path> starts with; after it was set to a value without the prefix,
\* the stored port is that value.
C18_PortPrefixStripped ==
    value # NoneStr
        => IF HasScheme(value) THEN Prefix \o port = value ELSE port = value

\* the port was set to the prefix twice over and a character: one prefix stays
C18_Witness ==
    /\ value = Prefix \o Prefix \o <<"d">>
    /\ port = Prefix \o <<"d">>

\* C19: whenever a wait of read or write reports the abort channel, that channel's
\* pipe is empty when the call is over, also when the wait reports a device error.
C19_AbortPipeDrained ==
    [][/\ (ReadPollReturns /\ AbortReported(events'))
            => (pc' = "idle" /\ pipe_abort_read' = 0)
       /\ (WritePollReturns /\ AbortReported(events'))
            => (pc' = "idle" /\ pipe_abort_write' = 0)]_vars

\* C20: a blocking write in flight with bytes remaining, on whose channel an abort
\* was signalled and is pending, eventually stops. (The claim says more: that it
\* stops by returning the count written so far.)
C20_AbortedWriteStops ==
    (InWrite /\ ~is_non_blocking(timeout) /\ signalled /\ pipe_abort_write > 0)
        ~> (pc = "idle")

\* the step in which os.write fails with a transient errno and the call goes on
WriteFailsTransiently ==
    /\ pc = "w_write" /\ pc' # "idle"
    /\ e' \in Transient
    /\ pipe_abort_write' = pipe_abort_write
    /\ now' = now

\* C21: after os.write has failed transiently in blocking mode, the count and the
\* unsent data are as before and the call waits in poll.poll before it attempts
\* the next os.write.
C21_TransientFailureWaits ==
    [][(WriteFailsTransiently /\ ~is_non_blocking(timeout))
         => /\ accepted' = accepted /\ d' = d /\ tx_remaining' = tx_remaining
            /\ pc' = "w_poll"]_vars

\* C22: with a finite read timeout, an iteration of the read loop that ends after
\* the deadline has expired ends the call: no further wait, no further device read.
C22_ReadStopsAtDeadline ==
    [][(/\ pc = "r_read" /\ pc' # "r_read"
        /\ ~is_infinite(timeout) /\ ~is_non_blocking(timeout)
        /\ expired(timeout, now))
         => pc' = "idle"]_vars

\* C23: a read with a finite timeout eventually returns or raises.
C23_ReadTerminates ==
    (InRead /\ ~is_infinite(timeout)) ~> (pc = "idle")

\* C24: with a non-zero inter-byte timeout configured, a device read that yields
\* no bytes ends the call in that iteration: read returns the bytes accumulated so
\* far and waits no more.
C24_InterByteBreak ==
    [][(/\ pc = "r_read" /\ pc' # "r_read"
        /\ rx = <<>> /\ outcome'.exc # "OSError"
        /\ inter_byte_timeout \notin {None, 0})
         => /\ pc' = "idle"
            /\ outcome' = Returned("read", read, Len(read), "inter_byte")
            /\ polls' = polls]_vars

\* a read of two bytes that got one, then an empty device read: it returned one
C24_Witness ==
    /\ pc = "idle" /\ outcome.op = "read" /\ outcome.by = "inter_byte"
    /\ inter_byte_timeout = 1 /\ size = 2 /\ Len(outcome.bytes) = 1 /\ dev_ios = 2

\* The ways a call can have ended, told from what it returned or raised and from
\* what its last wait reported.
EndsFull ==
    /\ outcome.kind = "return"
    /\ IF outcome.op = "read" THEN Len(outcome.bytes) = size ELSE outcome.count = total_len
EndsTimeout ==
    IF outcome.op = "read"
    THEN outcome.kind = "return" /\ events = <<>> /\ Len(outcome.bytes) < size
    ELSE outcome.kind = "raise" /\ "Write timeout" \in {outcome.msg, outcome.cause}
EndsAbort == outcome.kind = "return" /\ AbortReported(events)
EndsDeviceError == outcome.kind = "raise" /\ ErrReported(events)
EndsNotOpen == outcome.kind = "raise" /\ outcome.exc = "PortNotOpenError"
EndsInterByte ==
    /\ outcome.op = "read" /\ outcome.kind = "return"
    /\ events # <<>> /\ ~AbortReported(events) /\ Len(outcome.bytes) < size
EndsNonBlocking ==
    /\ outcome.op = "write" /\ outcome.kind = "return"
    /\ timeout = 0 /\ outcome.count < total_len
EndsOsFailure ==
    /\ outcome.kind = "raise"
    /\ IF outcome.op = "read" THEN outcome.exc = "OSError"
       ELSE e # "" /\ e \notin Transient /\ outcome.cause = e
HowMany(ways) == Cardinality({i \in 1..Len(ways) : ways[i]})
CallEnded == pc = "idle" /\ outcome.op \in {"read", "write"}

\* C25 as stated: every call that has ended ended in exactly one of four ways:
\* full completion, timeout expiry, abort, device error.
C25_FourWaysToEnd ==
    CallEnded => HowMany(<<EndsFull, EndsTimeout, EndsAbort, EndsDeviceError>>) = 1

\* C25 amended: every call that has ended ended in exactly one of these ways: the
\* four, Port-not-open, the inter-byte break, the non-blocking return, a failure
\* of os.read or os.write.
C25_OneWayToEnd ==
    CallEnded => HowMany(<<EndsFull, EndsTimeout, EndsAbort, EndsDeviceError,
                           EndsNotOpen, EndsInterByte, EndsNonBlocking,
                           EndsOsFailure>>) = 1

\* a read whose last wait reported the device readable and the abort channel
\* together: it ended by abort alone
C25_Witness ==
    /\ CallEnded /\ outcome.op = "read" /\ Len(events) = 2
    /\ EndsAbort /\ ~EndsFull /\ ~EndsDeviceError /\ rx # <<>>

\* C26: a step of a read leaves the write-abort pipe as it is and a step of a write
\* leaves the read-abort pipe as it is; the wait of a read reports the abort
\* channel only if the read-abort pipe holds a signal, that of a write only if the
\* write-abort pipe does.
C26_AbortChannelsIndependent ==
    [][/\ (pc = "idle" /\ pc' # "idle") => UNCHANGED <<pipe_abort_read, pipe_abort_write>>
       /\ (InRead /\ pc' # pc) => pipe_abort_write' = pipe_abort_write
       /\ (InWrite /\ (pc' # pc \/ dev_ios' # dev_ios \/ e' # e))
            => pipe_abort_read' = pipe_abort_read
       /\ (ReadPollReturns /\ pipe_abort_read = 0) => ~AbortReported(events')
       /\ (WritePollReturns /\ pipe_abort_write = 0) => ~AbortReported(events')]_vars

\* a read that waited its budget out while the write-abort pipe held two signals
C26_Witness ==
    /\ pc = "idle" /\ outcome.op = "read" /\ outcome.by = "timeout"
    /\ polls > 0 /\ events = <<>>
    /\ pipe_abort_write = MaxPending /\ pipe_abort_read = 0

\* C27: the timeout of a call in flight stays what it was at entry; the budget of
\* every wait is, for a finite timeout, max(0, deadline - now) cut down to whole
\* milliseconds (not negative, not more than the time left, less than a
\* millisecond short of it), and for an infinite timeout there is no bound.
C27_WaitBudget ==
    [][/\ (pc # "idle" /\ pc' # "idle") => timeout' = timeout
       /\ pc' \in {"r_poll", "w_poll"}
            => IF is_infinite(timeout')
               THEN poll_timeout' = None
               ELSE LET left == Max(0, timeout' - poll_start') IN
                    /\ poll_timeout' # None /\ poll_timeout' >= 0
                    /\ poll_timeout' * TicksPerMs <= left
                    /\ left < (poll_timeout' + 1) * TicksPerMs]_vars

\* a read that has made progress waits again: its budget is what is left of the
\* deadline set at entry, cut down to whole milliseconds
C27_Witness ==
    /\ pc = "r_poll" /\ timeout = MaxTimeout /\ read # <<>>
    /\ poll_start > 0 /\ poll_start < timeout
    /\ poll_timeout * TicksPerMs < timeout - poll_start

\* C28: a blocking write with a finite timeout eventually returns or raises.
C28_WriteTerminates ==
    (InWrite /\ ~is_infinite(timeout) /\ ~is_non_blocking(timeout)) ~> (pc = "idle")

\* a write whose os.write failed transiently every time: the deadline ended it
C28_Witness ==
    /\ pc = "idle" /\ outcome.op = "write" /\ timeout = MaxTimeout
    /\ ErrorKind(outcome) = "Write-timeout"
    /\ e \in Transient /\ n = None /\ dev_ios = MaxCount /\ polls = 0

\* C29: while the port is open and no read has raised, the bytes the reads have
\* returned, then the bytes in the buffer of the read in flight, then the bytes
\* the device still holds, are the stream the device delivered: what was returned
\* is a prefix of it. One device read takes at most size - len(read) bytes.
C29_ReadsArePrefixOfStream ==
    [][/\ (is_open' /\ clean')
            => returned' \o (IF pc' \in {"r_poll", "r_read"} THEN read' ELSE <<>>) \o rx'
                   = stream'
       /\ (pc = "r_read" /\ pc' # "r_read")
            => Len(rx) - Len(rx') <= size - Len(read)]_vars

\* two reads of one byte each have returned the two bytes of the stream in order
C29_Witness ==
    /\ is_open /\ clean /\ pc = "idle" /\ outcome.op = "read" /\ size = 1
    /\ returned = <<1, 2>> /\ outcome.bytes = <<2>> /\ stream = <<1, 2>>

\* C30: in a write, tx_remaining is the length of the unsent data d, d is the
\* original data from the number of bytes accepted so far on, and the bytes the
\* device has accepted are the original data up to that number: up to the
\* returned count once the write has returned.
C30_UnsentIsSuffix ==
    (InWrite \/ outcome.op = "write")
        => /\ tx_remaining = Len(d)
           /\ d = SubSeq(Bytes(total_len), accepted + 1, total_len)
           /\ tx = SubSeq(Bytes(total_len), 1, accepted)
           /\ (outcome.kind = "return" => tx = SubSeq(Bytes(total_len), 1, outcome.count))

\* a write of two bytes that took two attempts with a wait in between
C30_Witness ==
    /\ pc = "idle" /\ outcome.op = "write" /\ outcome.kind = "return"
    /\ tx = <<1, 2>> /\ outcome.count = 2 /\ dev_ios = 2 /\ polls = 1 /\ d = <<>>

Reverse(q) == [i \in 1..Len(q) |-> q[Len(q) + 1 - i]]
ReadyReported(ev) == \E i \in 1..Len(ev) : ev[i].fd = "fd" /\ "POLLIN" \in ev[i].event

\* C31: when one wait of read reports the device readable (no error condition)
\* and the abort channel, in this order or in the other, the result is abort: the
\* pipe is consumed, no device read is made, read returns the bytes accumulated
\* before the wait and the device keeps its unread bytes.
C31_AbortBeforeReady ==
    [][(/\ ReadPollReturns
        /\ ReadyReported(events') /\ AbortReported(events') /\ ~ErrReported(events'))
         => /\ PollResult(events') = "ABORT"
            /\ PollResult(Reverse(events')) = "ABORT"
            /\ pc' = "idle"
            /\ outcome' = Returned("read", read, Len(read), "abort")
            /\ pipe_abort_read' = 0
            /\ dev_ios' = dev_ios /\ rx' = rx]_vars

\* a read of two bytes that had one, then a wait reported a byte ready and the
\* abort together: it returned the one, the other stays with the device
C31_Witness ==
    /\ pc = "idle" /\ outcome.op = "read" /\ outcome.by = "abort"
    /\ ReadyReported(events) /\ AbortReported(events)
    /\ size = 2 /\ outcome.bytes = <<1>> /\ rx = <<2>> /\ pipe_abort_read = 0

\* the step is a call on an open port (not the port closing, the device delivering
\* or another thread raising a signal) and the call is read(0) or write(b"")
EmptyCall ==
    /\ pc = "idle" /\ is_open /\ is_open' /\ delivered' = delivered
    /\ pipe_abort_read' <= pipe_abort_read /\ pipe_abort_write' <= pipe_abort_write
    /\ \/ size' = 0 /\ (pc' \in {"r_poll", "r_read"} \/ outcome'.op = "read")
       \/ total_len' = 0 /\ (pc' \in {"w_write", "w_poll"} \/ outcome'.op = "write")

\* C32: on an open port read(0) returns b"" and write(b"") returns 0 at once:
\* no wait, no device I/O, nothing taken from an abort pipe or from the device.
C32_EmptyCallsDoNothing ==
    [][EmptyCall
         => /\ pc' = "idle"
            /\ outcome'.kind = "return"
            /\ outcome'.bytes = <<>> /\ outcome'.count = 0
            /\ polls' = 0 /\ dev_ios' = 0 /\ pipe_reads' = 0
            /\ pipe_abort_read' >= pipe_abort_read
            /\ pipe_abort_write' >= pipe_abort_write
            /\ rx' = rx]_vars

\* read(0) has returned on an open port whose read-abort pipe holds a signal
C32_Witness ==
    /\ pc = "idle" /\ is_open /\ outcome.op = "read" /\ size = 0
    /\ outcome.kind = "return" /\ outcome.bytes = <<>>
    /\ polls = 0 /\ pipe_reads = 0 /\ pipe_abort_read > 0 /\ stale

\* an int in 0..2^(16k)-1
InRange(x, k) == x.sign = 0 /\ Len(x.bits) <= WordBits * k

\* C33: a number of k >= 2 addresses set to an integer in 0..2^(16k)-1 has been
\* written as k words, each in 0..65535, the low word first: word i holds bits
\* 16(i-1)+1..16i of the integer; combined by native_value's formula they give
\* that integer back, and so does native_value.
C33_WordsRoundTrip ==
    (addresses >= 2 /\ Len(registers) = addresses /\ InRange(int_value, addresses))
        => /\ \A i \in 1..addresses :
                /\ InRange(registers[i], 1)
                /\ \A j \in 1..WordBits :
                      Bit(registers[i], j) = Bit(int_value, WordBits * (i - 1) + j)
           /\ combine(registers, addresses) = int_value
           /\ (native_value # NoInt => native_value = int_value)

\* a number of three addresses was set to 0x12345678 and read back
C33_Witness ==
    /\ addresses = 3 /\ int_value = int(305419896)
    /\ registers = <<int(22136), int(4660), int(0)>> /\ native_value = int_value

\* a number of two addresses was set to 2^32 - 1, the top of its range, and read
\* back
C33_WitnessTop ==
    /\ addresses = 2 /\ int_value = Ones(2 * WordBits)
    /\ registers = <<int(65535), int(65535)>> /\ native_value = int_value

\* past the range the words do not hold the integer: 2^32 written to a number of
\* two addresses reads back as 0
C33_WitnessPast ==
    /\ addresses = 2 /\ int_value = Pow2(2 * WordBits)
    /\ registers = <<int(0), int(0)>> /\ native_value = int(0)

WithinWholeBounds ==
    (/\ registers # <<>>
     /\ native_min_value # NoFloat /\ native_max_value # NoFloat
     /\ native_min_value.h = 0 /\ native_max_value.h = 0)
        => /\ Leq(native_min_value, Float(int_value, 0))
           /\ Leq(Float(int_value, 0), native_max_value)
           /\ (addresses = 1 => registers = <<int_value>>)

\* a number of one address and bounds 0 and 65536 was set to 65537: 65536 was
\* passed on, as it is
WholeBoundsWitness ==
    /\ addresses = 1
    /\ native_min_value = Float(int(0), 0) /\ native_max_value = Float(int(65536), 0)
    /\ requested = Float(int(65537), 0)
    /\ int_value = int(65536) /\ registers = <<int(65536)>>

====
